---- MODULE Spec2Model ----
(***************************************************************************)
(* Model of the HalfBeats step sequencer (src/main.py, class DrumMachine). *)
(*                                                                         *)
(* A DrumMachine object is a record with the fields of the Python object.  *)
(* Every handler of the class is an operator from the object before the    *)
(* call to the object after it.  Besides the Python fields the record      *)
(* carries what the latest handler handed to its collaborators:            *)
(*   sent     the messages passed to outport.send, in order                *)
(*   raised   the exception that left the handler ("none" if it returned)  *)
(*   written  the track passed to MidiFile.save                            *)
(*   dialog   the QMessageBox shown                                        *)
(* dm is the object of a host with a MIDI output (init_midi_output gave a   *)
(* port).  nosink is the object of a host without one (init_midi_output    *)
(* gave None); it takes part in SpecBoth only, where every operation on dm *)
(* is performed on it too.                                                 *)
(***************************************************************************)
EXTENDS Integers, Sequences, FiniteSets, TLC

VARIABLES dm, nosink, last_op, run_start, run_ticks, exported, adding, modal

vars == <<dm, nosink, last_op, run_start, run_ticks, exported, adding, modal>>

(***************************************************************************)
(* Bounds of the exploration.                                              *)
(***************************************************************************)
\* add_step_group is offered while group_count is below this
MaxGroups == 2

(***************************************************************************)
(* Program constants.                                                      *)
(***************************************************************************)
\* the Voice Table, in insertion order of the dict
DRUM_NOTES ==
    << [drum |-> "kick",       note |-> 36],
       [drum |-> "snare",      note |-> 38],
       [drum |-> "closed_hat", note |-> 42],
       [drum |-> "open_hat",   note |-> 46],
       [drum |-> "low_tom",    note |-> 45],
       [drum |-> "mid_tom",    note |-> 47],
       [drum |-> "high_tom",   note |-> 50],
       [drum |-> "crash",      note |-> 49],
       [drum |-> "ride",       note |-> 51] >>

STEPS_PER_GROUP == 16

\* mido.MidiFile() default resolution
TICKS_PER_BEAT == 480

\* bpm_input.setValue(120)
DEFAULT_BPM == 120

\* file_input = QLineEdit("drum_output.mid")
DEFAULT_FILENAME == "drum_output.mid"

None == "None"

Port == "Port"

DrumNames == {DRUM_NOTES[i].drum : i \in 1..Len(DRUM_NOTES)}

\* next(iter(self.pattern.values())) is the sequence of the first key
FirstDrum == DRUM_NOTES[1].drum

TotalSteps(self) == Len(self.pattern[FirstDrum])

(***************************************************************************)
(* mido messages.                                                          *)
(***************************************************************************)
Message(type, note, velocity, time) ==
    [type |-> type, channel |-> 9, note |-> note, velocity |-> velocity,
     time |-> time]

\* bpm2tempo: int(round(60 * 1e6 / bpm))
bpm2tempo(bpm) == (2 * 60000000 + bpm) \div (2 * bpm)

MetaMessage(bpm) == [type |-> "set_tempo", tempo |-> bpm2tempo(bpm), time |-> 0]

\* the latest handler's outputs are those of this call only
Enter(self) ==
    [self EXCEPT !.sent = <<>>, !.raised = "none", !.written = <<>>,
                 !.dialog = "none"]

Zeros(n) == [i \in 1..n |-> 0]

(***************************************************************************)
(* Handlers.                                                               *)
(***************************************************************************)
\* the last row of the table is not extended
add_step_group_skips_row(self0) ==
    LET self == Enter(self0) IN
    [self EXCEPT !.group_count = @ + 1,
                 !.pattern = [d \in DrumNames |->
                                 IF d = DRUM_NOTES[Len(DRUM_NOTES)].drum
                                 THEN self.pattern[d]
                                 ELSE self.pattern[d] \o Zeros(STEPS_PER_GROUP)]]

\* the new cells are inserted in front of the stored ones
add_step_group_prepends(self0) ==
    LET self == Enter(self0) IN
    [self EXCEPT !.group_count = @ + 1,
                 !.pattern = [d \in DrumNames |->
                                 Zeros(STEPS_PER_GROUP) \o self.pattern[d]]]

add_step_group(self0) ==
    LET self == Enter(self0) IN
    [self EXCEPT !.group_count = @ + 1,
                 !.pattern = [d \in DrumNames |->
                                 self.pattern[d] \o Zeros(STEPS_PER_GROUP)]]

\* the note is switched on and never off
preview_note_no_off(self, note) ==
    IF self.outport # None
    THEN [self EXCEPT !.sent = @ \o << Message("note_on", note, 127, 0) >>]
    ELSE self

preview_note(self, note) ==
    IF self.outport # None
    THEN [self EXCEPT !.sent = @ \o << Message("note_on", note, 127, 0),
                                       Message("note_off", note, 127, 100) >>]
    ELSE self

\* the cell is switched on whatever the button holds
make_toggle_always_on(self0, drum, step_index, checked, note) ==
    LET self == Enter(self0) IN
    IF step_index >= Len(self.pattern[drum])
    THEN [self EXCEPT !.raised = "IndexError"]
    ELSE LET set == [self EXCEPT !.pattern[drum][step_index + 1] = 1]
         IN  IF checked THEN preview_note(set, note) ELSE set

\* the preview is sent before the cell is stored
make_toggle_preview_first(self0, drum, step_index, checked, note) ==
    LET self == Enter(self0)
        previewed == IF checked THEN preview_note(self, note) ELSE self
    IN  IF step_index >= Len(self.pattern[drum])
        THEN [previewed EXCEPT !.raised = "IndexError"]
        ELSE [previewed EXCEPT !.pattern[drum][step_index + 1] =
                                   IF checked THEN 1 ELSE 0]

\* the closure returned by make_toggle(drum, step_index, btn, note), called
\* while btn.isChecked() is `checked`
make_toggle(self0, drum, step_index, checked, note) ==
    LET self == Enter(self0) IN
    IF step_index >= Len(self.pattern[drum])
    THEN [self EXCEPT !.raised = "IndexError"]
    ELSE LET set == [self EXCEPT !.pattern[drum][step_index + 1] =
                                     IF checked THEN 1 ELSE 0]
         IN  IF checked THEN preview_note(set, note) ELSE set

interval_ms(bpm) == 15000 \div bpm

start_playback(self0) ==
    LET self == Enter(self0) IN
    [self EXCEPT !.timer_interval = interval_ms(self.bpm),
                 !.timer_active = TRUE,
                 !.is_playing = TRUE]

\* the flag is cleared but the timer keeps running
pause_playback_timer_runs(self0) ==
    LET self == Enter(self0) IN
    [self EXCEPT !.is_playing = FALSE]

pause_playback(self0) ==
    LET self == Enter(self0) IN
    [self EXCEPT !.timer_active = FALSE, !.is_playing = FALSE]

\* the cursor is not reset
stop_playback_keeps_cursor(self0) ==
    LET self == Enter(self0) IN
    [self EXCEPT !.timer_active = FALSE, !.is_playing = FALSE]

stop_playback(self0) ==
    LET self == Enter(self0) IN
    [self EXCEPT !.timer_active = FALSE, !.step_index = 0,
                 !.is_playing = FALSE]

\* every row long enough is played, whatever its cell holds
RECURSIVE StepSendsAnyCell(_, _)
StepSendsAnyCell(self, i) ==
    IF i > Len(DRUM_NOTES) THEN <<>>
    ELSE LET drum == DRUM_NOTES[i].drum
             note == DRUM_NOTES[i].note
         IN  (IF self.step_index < Len(self.pattern[drum])
              THEN << Message("note_on", note, 127, 0),
                      Message("note_off", note, 127, 100) >>
              ELSE <<>>) \o StepSendsAnyCell(self, i + 1)

\* the sends of the loop of play_step over DRUM_NOTES.items(), from row i on
RECURSIVE StepSends(_, _)
StepSends(self, i) ==
    IF i > Len(DRUM_NOTES) THEN <<>>
    ELSE LET drum == DRUM_NOTES[i].drum
             note == DRUM_NOTES[i].note
         IN  (IF /\ self.step_index < Len(self.pattern[drum])
                 /\ self.pattern[drum][self.step_index + 1] # 0
              THEN << Message("note_on", note, 127, 0),
                      Message("note_off", note, 127, 100) >>
              ELSE <<>>) \o StepSends(self, i + 1)

\* the cursor wraps at the end of the first group
play_step_wraps_group(self0) ==
    LET self == Enter(self0)
        played == IF self.outport # None
                  THEN [self EXCEPT !.sent = StepSends(self, 1)]
                  ELSE self
    IN  [played EXCEPT !.step_index = (@ + 1) % STEPS_PER_GROUP]

\* the cursor advances only when a port is open
play_step_needs_port(self0) ==
    LET self == Enter(self0)
        total_steps == Len(self.pattern[FirstDrum])
    IN  IF self.outport # None
        THEN [self EXCEPT !.sent = StepSends(self, 1),
                          !.step_index = (@ + 1) % total_steps]
        ELSE self

\* the cursor advances without wrapping
play_step_nowrap(self0) ==
    LET self == Enter(self0)
        played == IF self.outport # None
                  THEN [self EXCEPT !.sent = StepSends(self, 1)]
                  ELSE self
    IN  [played EXCEPT !.step_index = @ + 1]

play_step(self0) ==
    LET self == Enter(self0)
        total_steps == Len(self.pattern[FirstDrum])
        played == IF self.outport # None
                  THEN [self EXCEPT !.sent = StepSends(self, 1)]
                  ELSE self
    IN  IF total_steps = 0
        THEN [played EXCEPT !.raised = "ZeroDivisionError"]
        ELSE [played EXCEPT !.step_index = (@ + 1) % total_steps]

\* every note-on carries the step's delta
RECURSIVE StepTrackAllDelta(_, _, _, _)
StepTrackAllDelta(self, step, i, step_written) ==
    IF i > Len(DRUM_NOTES)
    THEN IF step_written THEN <<>>
         ELSE << Message("note_off", 0, 0, TICKS_PER_BEAT \div 4) >>
    ELSE LET drum == DRUM_NOTES[i].drum
             note == DRUM_NOTES[i].note
         IN  IF /\ step < Len(self.pattern[drum])
                /\ self.pattern[drum][step + 1] # 0
             THEN << Message("note_on", note, 127, TICKS_PER_BEAT \div 4),
                     Message("note_off", note, 127, 0) >>
                  \o StepTrackAllDelta(self, step, i + 1, TRUE)
             ELSE StepTrackAllDelta(self, step, i + 1, step_written)

\* a step without active voice writes nothing
RECURSIVE StepTrackNoPlaceholder(_, _, _, _)
StepTrackNoPlaceholder(self, step, i, step_written) ==
    IF i > Len(DRUM_NOTES)
    THEN <<>>
    ELSE LET drum == DRUM_NOTES[i].drum
             note == DRUM_NOTES[i].note
         IN  IF /\ step < Len(self.pattern[drum])
                /\ self.pattern[drum][step + 1] # 0
             THEN << Message("note_on", note, 127,
                             IF step_written THEN 0 ELSE TICKS_PER_BEAT \div 4),
                     Message("note_off", note, 127, 0) >>
                  \o StepTrackNoPlaceholder(self, step, i + 1, TRUE)
             ELSE StepTrackNoPlaceholder(self, step, i + 1, step_written)

\* the events appended to the track for one step, from row i on
RECURSIVE StepTrack(_, _, _, _)
StepTrack(self, step, i, step_written) ==
    IF i > Len(DRUM_NOTES)
    THEN IF step_written THEN <<>>
         ELSE << Message("note_off", 0, 0, TICKS_PER_BEAT \div 4) >>
    ELSE LET drum == DRUM_NOTES[i].drum
             note == DRUM_NOTES[i].note
         IN  IF /\ step < Len(self.pattern[drum])
                /\ self.pattern[drum][step + 1] # 0
             THEN << Message("note_on", note, 127,
                             IF step_written THEN 0 ELSE TICKS_PER_BEAT \div 4),
                     Message("note_off", note, 127, 0) >>
                  \o StepTrack(self, step, i + 1, TRUE)
             ELSE StepTrack(self, step, i + 1, step_written)

RECURSIVE Track(_, _)
Track(self, step) ==
    IF step >= Len(self.pattern[FirstDrum]) THEN <<>>
    ELSE StepTrack(self, step, 1, FALSE) \o Track(self, step + 1)

\* the warning is shown and the export goes on
\* the track is written from the cursor onward instead of from step 0
export_midi_from_cursor(self0, filename, save_ok) ==
    LET self == Enter(self0) IN
    IF filename = ""
    THEN [self EXCEPT !.dialog = "warning"]
    ELSE IF save_ok
         THEN [self EXCEPT !.written = <<MetaMessage(self.bpm)>>
                                           \o Track(self, self.step_index),
                           !.dialog = "information"]
         ELSE [self EXCEPT !.raised = "OSError"]

export_midi_no_return(self0, filename, save_ok) ==
    LET self == Enter(self0) IN
    IF save_ok
    THEN [self EXCEPT !.written = <<MetaMessage(self.bpm)>> \o Track(self, 0),
                      !.dialog = "information"]
    ELSE [self EXCEPT !.raised = "OSError",
                      !.dialog = IF filename = "" THEN "warning" ELSE "none"]

\* the exception of mid.save is caught and dropped
export_midi_swallows(self0, filename, save_ok) ==
    LET self == Enter(self0) IN
    IF filename = ""
    THEN [self EXCEPT !.dialog = "warning"]
    ELSE IF save_ok
         THEN [self EXCEPT !.written = <<MetaMessage(self.bpm)>> \o Track(self, 0),
                           !.dialog = "information"]
         ELSE [self EXCEPT !.dialog = "information"]

\* export_midi while file_input.text() is `filename`; save_ok tells whether
\* the file system accepts the write of mid.save
export_midi(self0, filename, save_ok) ==
    LET self == Enter(self0) IN
    IF filename = ""
    THEN [self EXCEPT !.dialog = "warning"]
    ELSE IF save_ok
         THEN [self EXCEPT !.written = <<MetaMessage(self.bpm)>> \o Track(self, 0),
                           !.dialog = "information"]
         ELSE [self EXCEPT !.raised = "OSError"]

\* a constructor that leaves the grid without its first group
DrumMachine_no_first_group(outport) ==
    [pattern |-> [d \in DrumNames |-> <<>>],
     group_count |-> 0,
     outport |-> outport,
     step_index |-> 0,
     timer_active |-> FALSE,
     timer_interval |-> 0,
     is_playing |-> FALSE,
     bpm |-> DEFAULT_BPM,
     sent |-> <<>>,
     raised |-> "none",
     written |-> <<>>,
     dialog |-> "none"]

\* DrumMachine(): __init__ followed by init_ui, on a host where
\* init_midi_output returns `outport`
DrumMachine(outport) ==
    add_step_group(
        [pattern |-> [d \in DrumNames |-> <<>>],
         group_count |-> 0,
         outport |-> outport,
         step_index |-> 0,
         timer_active |-> FALSE,
         timer_interval |-> 0,
         is_playing |-> FALSE,
         bpm |-> DEFAULT_BPM,
         sent |-> <<>>,
         raised |-> "none",
         written |-> <<>>,
         dialog |-> "none"])

(***************************************************************************)
(* The state machine.                                                      *)
(***************************************************************************)
\* no export has succeeded since the pattern last changed
NoExport == [track |-> <<>>, ticked |-> FALSE, saved |-> FALSE]

Init ==
    /\ dm = DrumMachine(Port)
    /\ nosink = DrumMachine(None)
    /\ last_op = "init"
    /\ run_start = 0
    /\ run_ticks = 0
    /\ exported = NoExport
    /\ adding = 0
    /\ modal = 0

AddStepGroup ==
    /\ dm.group_count < MaxGroups
    /\ dm' = add_step_group(dm)
    /\ last_op' = "add_step_group"

\* the rows of the grid that are clicked: the first and the last of the table
ToggleRows == {1, Len(DRUM_NOTES)}

\* the columns that are clicked: the first of the first group and, once it
\* is there, the first of the second group (every button is bound to a
\* column that is stored)
ToggleSteps(self) == {step \in {0, STEPS_PER_GROUP} : step < TotalSteps(self)}

\* btn.isChecked() as the slot finds it: a click flips the checkable button
\* before clicked is emitted, and the button holds what its cell holds,
\* since only its own toggle writes either
isChecked(self, drum, step_index) == self.pattern[drum][step_index + 1] = 0

Toggle ==
    \E i \in ToggleRows, step_index \in ToggleSteps(dm) :
        /\ dm' = make_toggle(dm, DRUM_NOTES[i].drum, step_index,
                             isChecked(dm, DRUM_NOTES[i].drum, step_index),
                             DRUM_NOTES[i].note)
        /\ last_op' = "toggle"

StartPlayback ==
    /\ dm' = start_playback(dm)
    /\ last_op' = "start_playback"

PausePlayback ==
    /\ dm' = pause_playback(dm)
    /\ last_op' = "pause_playback"

StopPlayback ==
    /\ dm' = stop_playback(dm)
    /\ last_op' = "stop_playback"

\* timer.timeout, delivered only while the QTimer is active
PlayStep ==
    /\ dm.timer_active
    /\ dm' = play_step(dm)
    /\ last_op' = "play_step"

ExportMidi ==
    \E filename \in {"", DEFAULT_FILENAME}, save_ok \in BOOLEAN :
        /\ dm' = export_midi(dm, filename, save_ok)
        /\ last_op' = "export_midi"

(***************************************************************************)
(* The message box of export_midi.  QMessageBox.warning and                *)
(* QMessageBox.information are modal: each runs an event loop of its own   *)
(* until the user closes the box, and export_midi returns only then.  The  *)
(* box takes the clicks meant for the window, but a running QTimer keeps   *)
(* firing, so play_step runs while export_midi is still on the stack.      *)
(* modal is 0 when no box is open, else 1 + the ticks delivered inside it. *)
(***************************************************************************)
MaxDialogTicks == 2

NoDialog == modal = 0

\* the box opens as the last statement of export_midi; a failed save
\* leaves the handler before any box
OpenDialog == modal' = IF dm'.dialog # "none" THEN 1 ELSE 0

\* the object after a slot has run inside the box: the outer call has not
\* returned, so its file and its box are still there, and what the slot
\* sends follows what was sent before
Nested(outer, inner) ==
    [inner EXCEPT !.sent = outer.sent \o @,
                  !.written = outer.written,
                  !.dialog = outer.dialog]

PlayStepInDialog ==
    /\ modal \in 1..MaxDialogTicks
    /\ dm.timer_active
    /\ dm' = Nested(dm, play_step(dm))
    /\ modal' = modal + 1
    /\ last_op' = "play_step"

\* the user closes the box and export_midi returns
CloseDialog ==
    /\ modal > 0
    /\ modal' = 0
    /\ dm' = dm
    /\ last_op' = "export_midi returned"

Next ==
    \/ NoDialog /\ AddStepGroup /\ UNCHANGED <<nosink, run_start, run_ticks, exported, adding, modal>>
    \/ NoDialog /\ Toggle /\ UNCHANGED <<nosink, run_start, run_ticks, exported, adding, modal>>
    \/ NoDialog /\ StartPlayback /\ UNCHANGED <<nosink, run_start, run_ticks, exported, adding, modal>>
    \/ NoDialog /\ PausePlayback /\ UNCHANGED <<nosink, run_start, run_ticks, exported, adding, modal>>
    \/ NoDialog /\ StopPlayback /\ UNCHANGED <<nosink, run_start, run_ticks, exported, adding, modal>>
    \/ NoDialog /\ PlayStep /\ UNCHANGED <<nosink, run_start, run_ticks, exported, adding, modal>>
    \/ NoDialog /\ ExportMidi /\ OpenDialog /\ UNCHANGED <<nosink, run_start, run_ticks, exported, adding>>
    \/ PlayStepInDialog /\ UNCHANGED <<nosink, run_start, run_ticks, exported, adding>>
    \/ CloseDialog /\ UNCHANGED <<nosink, run_start, run_ticks, exported, adding>>

Spec == Init /\ [][Next]_vars

(***************************************************************************)
(* The same machine with the current run of consecutive ticks recorded:    *)
(* run_start is the cursor before the first tick of the run, run_ticks the *)
(* number of ticks in it.  A run ends with any other operation, and a run  *)
(* that has gone once round the pattern starts again.                      *)
(***************************************************************************)
EndRun ==
    /\ run_start' = dm'.step_index
    /\ run_ticks' = 0

CountTick ==
    IF run_ticks >= Len(dm.pattern[FirstDrum])
    THEN run_start' = dm.step_index /\ run_ticks' = 1
    ELSE run_start' = run_start /\ run_ticks' = run_ticks + 1

NextCycle ==
    \/ AddStepGroup /\ EndRun /\ UNCHANGED <<nosink, exported, adding, modal>>
    \/ Toggle /\ EndRun /\ UNCHANGED <<nosink, exported, adding, modal>>
    \/ StartPlayback /\ EndRun /\ UNCHANGED <<nosink, exported, adding, modal>>
    \/ PausePlayback /\ EndRun /\ UNCHANGED <<nosink, exported, adding, modal>>
    \/ StopPlayback /\ EndRun /\ UNCHANGED <<nosink, exported, adding, modal>>
    \/ PlayStep /\ CountTick /\ UNCHANGED <<nosink, exported, adding, modal>>

SpecCycle == Init /\ [][NextCycle]_vars

(***************************************************************************)
(* Two hosts side by side: every operation performed on dm, the object     *)
(* with an open port, is performed with the same arguments on nosink, the  *)
(* object whose init_midi_output returned None.  Each object's timer       *)
(* delivers its timeout only while that timer is active.                   *)
(***************************************************************************)
BothAddStepGroup ==
    /\ AddStepGroup
    /\ nosink' = add_step_group(nosink)

BothToggle ==
    \E i \in ToggleRows, step_index \in ToggleSteps(dm) :
        /\ dm' = make_toggle(dm, DRUM_NOTES[i].drum, step_index,
                             isChecked(dm, DRUM_NOTES[i].drum, step_index),
                             DRUM_NOTES[i].note)
        /\ nosink' = make_toggle(nosink, DRUM_NOTES[i].drum, step_index,
                                 isChecked(nosink, DRUM_NOTES[i].drum,
                                           step_index),
                                 DRUM_NOTES[i].note)
        /\ last_op' = "toggle"

BothStartPlayback ==
    /\ StartPlayback
    /\ nosink' = start_playback(nosink)

BothPausePlayback ==
    /\ PausePlayback
    /\ nosink' = pause_playback(nosink)

BothStopPlayback ==
    /\ StopPlayback
    /\ nosink' = stop_playback(nosink)

BothPlayStep ==
    /\ PlayStep
    /\ nosink' = IF nosink.timer_active THEN play_step(nosink) ELSE nosink

BothExportMidi ==
    \E filename \in {"", DEFAULT_FILENAME}, save_ok \in BOOLEAN :
        /\ dm' = export_midi(dm, filename, save_ok)
        /\ nosink' = export_midi(nosink, filename, save_ok)
        /\ last_op' = "export_midi"

BothPlayStepInDialog ==
    /\ PlayStepInDialog
    /\ nosink' = IF nosink.timer_active
                 THEN Nested(nosink, play_step(nosink))
                 ELSE nosink

NextBoth ==
    \/ NoDialog /\ BothAddStepGroup /\ UNCHANGED <<run_start, run_ticks, exported, adding, modal>>
    \/ NoDialog /\ BothToggle /\ UNCHANGED <<run_start, run_ticks, exported, adding, modal>>
    \/ NoDialog /\ BothStartPlayback /\ UNCHANGED <<run_start, run_ticks, exported, adding, modal>>
    \/ NoDialog /\ BothPausePlayback /\ UNCHANGED <<run_start, run_ticks, exported, adding, modal>>
    \/ NoDialog /\ BothStopPlayback /\ UNCHANGED <<run_start, run_ticks, exported, adding, modal>>
    \/ NoDialog /\ BothPlayStep /\ UNCHANGED <<run_start, run_ticks, exported, adding, modal>>
    \/ NoDialog /\ BothExportMidi /\ OpenDialog /\ UNCHANGED <<run_start, run_ticks, exported, adding>>
    \/ BothPlayStepInDialog /\ UNCHANGED <<run_start, run_ticks, exported, adding>>
    \/ CloseDialog /\ UNCHANGED nosink /\ UNCHANGED <<run_start, run_ticks, exported, adding>>

SpecBoth == Init /\ [][NextBoth]_vars

(***************************************************************************)
(* The tempo field.  bpm_input is a spin box limited to 30..300 whose      *)
(* value the user may edit at any time; no signal of it is connected, so   *)
(* an edit stores the value and runs no code of the machine.               *)
(***************************************************************************)
BpmValues == {30, DEFAULT_BPM, 300}

bpm_input_setValue(self0, value) ==
    LET self == Enter(self0) IN
    [self EXCEPT !.bpm = value]

SetBpm ==
    /\ \E value \in BpmValues : dm' = bpm_input_setValue(dm, value)
    /\ last_op' = "bpm_input.setValue"

NextTempo ==
    \/ AddStepGroup /\ UNCHANGED <<nosink, run_start, run_ticks, exported, adding, modal>>
    \/ Toggle /\ UNCHANGED <<nosink, run_start, run_ticks, exported, adding, modal>>
    \/ StartPlayback /\ UNCHANGED <<nosink, run_start, run_ticks, exported, adding, modal>>
    \/ PausePlayback /\ UNCHANGED <<nosink, run_start, run_ticks, exported, adding, modal>>
    \/ StopPlayback /\ UNCHANGED <<nosink, run_start, run_ticks, exported, adding, modal>>
    \/ PlayStep /\ UNCHANGED <<nosink, run_start, run_ticks, exported, adding, modal>>
    \/ SetBpm /\ UNCHANGED <<nosink, run_start, run_ticks, exported, adding, modal>>

SpecTempo == Init /\ [][NextTempo]_vars

(***************************************************************************)
(* Exports remembered.  exported holds the file written by the first       *)
(* successful export since the pattern last changed, and whether a tick    *)
(* has fired since that export.                                            *)
(***************************************************************************)
Forget == exported' = NoExport

Keep == exported' = exported

MarkTick == exported' = [exported EXCEPT !.ticked = exported.saved]

Remember ==
    exported' = IF dm'.dialog = "information" /\ ~exported.saved
                THEN [track |-> dm'.written, ticked |-> FALSE, saved |-> TRUE]
                ELSE exported

NextExport ==
    \/ NoDialog /\ AddStepGroup /\ Forget /\ UNCHANGED <<nosink, run_start, run_ticks, adding, modal>>
    \/ NoDialog /\ Toggle /\ Forget /\ UNCHANGED <<nosink, run_start, run_ticks, adding, modal>>
    \/ NoDialog /\ StartPlayback /\ Keep /\ UNCHANGED <<nosink, run_start, run_ticks, adding, modal>>
    \/ NoDialog /\ PausePlayback /\ Keep /\ UNCHANGED <<nosink, run_start, run_ticks, adding, modal>>
    \/ NoDialog /\ StopPlayback /\ Keep /\ UNCHANGED <<nosink, run_start, run_ticks, adding, modal>>
    \/ NoDialog /\ PlayStep /\ MarkTick /\ UNCHANGED <<nosink, run_start, run_ticks, adding, modal>>
    \/ NoDialog /\ ExportMidi /\ OpenDialog /\ Remember /\ UNCHANGED <<nosink, run_start, run_ticks, adding>>
    \/ PlayStepInDialog /\ MarkTick /\ UNCHANGED <<nosink, run_start, run_ticks, adding>>
    \/ CloseDialog /\ Keep /\ UNCHANGED <<nosink, run_start, run_ticks, adding>>

SpecExport == Init /\ [][NextExport]_vars

(***************************************************************************)
(* add_step_group row by row.  The handler runs on the GUI thread, like    *)
(* every other handler and the QTimer's timeout: Qt delivers the next      *)
(* click or timeout only once the running handler has returned to the      *)
(* event loop.  adding is the handler's position: 0 when no append is in   *)
(* progress, else the row of DRUM_NOTES whose 16 cells are appended next   *)
(* (the inner loop over one row's steps is taken as one step).             *)
(***************************************************************************)
\* col_offset is read and group_count incremented before the first row
add_step_group_begin(self0) ==
    LET self == Enter(self0) IN
    [self EXCEPT !.group_count = @ + 1]

\* one pass of the outer loop
add_step_group_row(self, row) ==
    [self EXCEPT !.pattern[DRUM_NOTES[row].drum] = @ \o Zeros(STEPS_PER_GROUP)]

\* events are delivered while a handler is still running
EventLoopIdle_reentrant == TRUE

\* the event loop delivers an event only between handlers
EventLoopIdle == adding = 0

BeginAddStepGroup ==
    /\ adding = 0
    /\ dm.group_count < MaxGroups
    /\ dm' = add_step_group_begin(dm)
    /\ adding' = 1
    /\ last_op' = "add_step_group"

AddStepGroupRow ==
    /\ adding > 0
    /\ dm' = add_step_group_row(dm, adding)
    /\ adding' = IF adding = Len(DRUM_NOTES) THEN 0 ELSE adding + 1
    /\ UNCHANGED last_op

NextLoop ==
    \/ EventLoopIdle /\ BeginAddStepGroup /\ UNCHANGED <<nosink, run_start, run_ticks, exported, modal>>
    \/ AddStepGroupRow /\ UNCHANGED <<nosink, run_start, run_ticks, exported, modal>>
    \/ EventLoopIdle /\ Toggle /\ UNCHANGED <<nosink, run_start, run_ticks, exported, adding, modal>>
    \/ EventLoopIdle /\ StartPlayback /\ UNCHANGED <<nosink, run_start, run_ticks, exported, adding, modal>>
    \/ EventLoopIdle /\ PausePlayback /\ UNCHANGED <<nosink, run_start, run_ticks, exported, adding, modal>>
    \/ EventLoopIdle /\ StopPlayback /\ UNCHANGED <<nosink, run_start, run_ticks, exported, adding, modal>>
    \/ EventLoopIdle /\ PlayStep /\ UNCHANGED <<nosink, run_start, run_ticks, exported, adding, modal>>

SpecLoop == Init /\ [][NextLoop]_vars

(***************************************************************************)
(* make_toggle as a function.  The window binds every closure to a stored  *)
(* column, so a click never addresses a column past the grid; the method   *)
(* make_toggle itself takes any step_index and any checkable button.  Here *)
(* it is called directly, on the objects the window goes through, with the *)
(* first column past the grid and the first of the group after it.         *)
(***************************************************************************)
UnstoredSteps(self) == {TotalSteps(self), TotalSteps(self) + STEPS_PER_GROUP}

CallToggle ==
    \E i \in ToggleRows, step_index \in UnstoredSteps(dm), checked \in BOOLEAN :
        /\ dm' = make_toggle(dm, DRUM_NOTES[i].drum, step_index, checked,
                             DRUM_NOTES[i].note)
        /\ last_op' = "make_toggle"

NextClosure ==
    \/ AddStepGroup /\ UNCHANGED <<nosink, run_start, run_ticks, exported, adding, modal>>
    \/ Toggle /\ UNCHANGED <<nosink, run_start, run_ticks, exported, adding, modal>>
    \/ StartPlayback /\ UNCHANGED <<nosink, run_start, run_ticks, exported, adding, modal>>
    \/ PausePlayback /\ UNCHANGED <<nosink, run_start, run_ticks, exported, adding, modal>>
    \/ StopPlayback /\ UNCHANGED <<nosink, run_start, run_ticks, exported, adding, modal>>
    \/ PlayStep /\ UNCHANGED <<nosink, run_start, run_ticks, exported, adding, modal>>
    \/ CallToggle /\ UNCHANGED <<nosink, run_start, run_ticks, exported, adding, modal>>

SpecClosure == Init /\ [][NextClosure]_vars

(***************************************************************************)
(* Properties.                                                             *)
(***************************************************************************)
SomeCellActive(self) ==
    \E d \in DrumNames : \E k \in 1..Len(self.pattern[d]) : self.pattern[d][k] = 1

\* C1: every voice's step sequence has the same length, and that length is
\* the number of add_step_group calls so far (group_count, the constructor's
\* call included) times the group size, so total_steps is a multiple of 16.
C1_EqualLengths ==
    \A d \in DrumNames :
        /\ Len(dm.pattern[d]) = dm.group_count * STEPS_PER_GROUP
        /\ Len(dm.pattern[d]) % STEPS_PER_GROUP = 0

\* two groups, a cell switched on, the clock ticking past the first group
C1_Witness ==
    /\ dm.group_count = 2
    /\ last_op = "play_step"
    /\ dm.step_index > STEPS_PER_GROUP
    /\ SomeCellActive(dm)

\* C2: the cursor satisfies 0 <= step_index < total_steps in every state.
C2_CursorInRange ==
    /\ 0 <= dm.step_index
    /\ dm.step_index < TotalSteps(dm)

\* a tick at the last step of a two-group pattern has wrapped the cursor
C2_Witness ==
    /\ last_op = "play_step"
    /\ dm.group_count = 2
    /\ dm.step_index = 0

\* C3: a tick happens only while the clock is Playing: the object that has
\* just run play_step has is_playing set, and whenever is_playing is clear
\* (after pause or stop, until the next start) the timer is inactive.
C3_TicksOnlyWhilePlaying ==
    /\ last_op = "play_step" => dm.is_playing
    /\ ~dm.is_playing => ~dm.timer_active

\* paused after some ticks
C3_Witness ==
    /\ last_op = "pause_playback"
    /\ dm.step_index > 0
    /\ ~dm.timer_active

\* C4: stop sets the cursor to 0, pause leaves the cursor where the last tick
\* put it, and neither changes a pattern cell.
C4_StopResetsPauseKeeps ==
    [][/\ last_op' = "stop_playback" =>
            /\ dm'.step_index = 0
            /\ dm'.pattern = dm.pattern
       /\ last_op' = "pause_playback" =>
            /\ dm'.step_index = dm.step_index
            /\ dm'.pattern = dm.pattern]_vars

\* stopped with a cell switched on in a two-group pattern
C4_Witness ==
    /\ last_op = "stop_playback"
    /\ dm.group_count = 2
    /\ dm.step_index = 0
    /\ SomeCellActive(dm)

\* C6: with total_steps = N held fixed, N consecutive ticks bring the cursor
\* back to the value it had before the first of them, and fewer than N ticks
\* (at least one) do not.
C6_CursorPeriod ==
    /\ run_ticks = TotalSteps(dm) => dm.step_index = run_start
    /\ (0 < run_ticks /\ run_ticks < TotalSteps(dm)) =>
           dm.step_index # run_start

\* a run of 32 ticks over two groups that began in the middle of the pattern
C6_Witness ==
    /\ TotalSteps(dm) = 2 * STEPS_PER_GROUP
    /\ run_ticks = TotalSteps(dm)
    /\ run_start = STEPS_PER_GROUP + 1
    /\ dm.step_index = run_start

\* the rows of the Voice Table whose cell at `step` is on
ActiveRows(self, step) ==
    {i \in 1..Len(DRUM_NOTES) : self.pattern[DRUM_NOTES[i].drum][step + 1] # 0}

\* the k-th row of a set of rows, in table order
NthRow(rows, k) ==
    CHOOSE i \in rows : Cardinality({j \in rows : j < i}) = k - 1

\* what the claim says of an event: its kind, channel, note and velocity
Claimed(msg) ==
    [type |-> msg.type, channel |-> msg.channel, note |-> msg.note,
     velocity |-> msg.velocity]

\* one note-on then one note-off per active row, in table order
TriggerEvents(self, step) ==
    LET rows == ActiveRows(self, step) IN
    [m \in 1..(2 * Cardinality(rows)) |->
        [type |-> IF m % 2 = 1 THEN "note_on" ELSE "note_off",
         channel |-> 9,
         note |-> DRUM_NOTES[NthRow(rows, (m + 1) \div 2)].note,
         velocity |-> 127]]

\* what a slot has sent: all of sent or, for a slot run inside a message box,
\* what it added to sent
SentBy(before, after, nested) ==
    IF nested
    THEN SubSeq(after.sent, Len(before.sent) + 1, Len(after.sent))
    ELSE after.sent

\* C7: a tick of the object with a live sink sends, for the step the cursor
\* was on, one note-on followed by one note-off (channel 9, velocity 127, the
\* voice's note) for every voice active at that step and for no other voice,
\* in Voice Table order, and moves the cursor to (step_index + 1) mod
\* total_steps.
C7_TickEmitsActiveVoices ==
    [][last_op' = "play_step" =>
          /\ LET sent == SentBy(dm, dm', modal > 0)
             IN  [m \in 1..Len(sent) |-> Claimed(sent[m])]
                     = TriggerEvents(dm, dm.step_index)
          /\ dm'.step_index = (dm.step_index + 1) % TotalSteps(dm)]_vars

\* a tick at a step where both clicked rows are on: four messages
C7_Witness ==
    /\ last_op = "play_step"
    /\ Len(dm.sent) = 4
    /\ dm.sent[1].note = 36
    /\ dm.sent[3].note = 51

\* what the sequencer logic consists of: everything but the port and the
\* messages handed to it
Core(self) ==
    [pattern |-> self.pattern, group_count |-> self.group_count,
     step_index |-> self.step_index, timer_active |-> self.timer_active,
     timer_interval |-> self.timer_interval, is_playing |-> self.is_playing,
     bpm |-> self.bpm, raised |-> self.raised, written |-> self.written,
     dialog |-> self.dialog]

\* C8: the object without a live sink sends nothing, its ticks and previews
\* raise nothing, and after the same operations its cursor, playback state
\* and pattern (all of its state but the port) are those of the object with
\* a sink.
C8_SinkIndependent ==
    /\ nosink.outport = None
    /\ nosink.sent = <<>>
    /\ last_op = "play_step" => nosink.raised = "none"
    /\ (last_op = "toggle" /\ dm.sent # <<>>) => nosink.raised = "none"
    /\ Core(nosink) = Core(dm)

\* a tick and a preview that the object with a sink sends and the other drops
C8_Witness ==
    /\ last_op \in {"play_step", "toggle"}
    /\ dm.sent # <<>>
    /\ nosink.sent = <<>>
    /\ nosink.step_index > 0

\* the other cells of the pattern, the cursor and the playback state
SameButCell(a, b, drum, step_index) ==
    /\ \A d \in DrumNames \ {drum} : b.pattern[d] = a.pattern[d]
    /\ Len(b.pattern[drum]) = Len(a.pattern[drum])
    /\ \A k \in 1..Len(a.pattern[drum]) :
          k # step_index + 1 => b.pattern[drum][k] = a.pattern[drum][k]
    /\ b.step_index = a.step_index
    /\ b.is_playing = a.is_playing
    /\ b.timer_active = a.timer_active

\* C9: a toggle of a stored cell (voice, step) to a value leaves an object in
\* which reading the cell gives that value and in which no other cell, nor
\* the cursor, nor the playback state has changed.
C9_ToggleThenRead ==
    \A i \in ToggleRows, step_index \in ToggleSteps(dm) :
        LET drum == DRUM_NOTES[i].drum
            checked == isChecked(dm, drum, step_index)
            after == make_toggle(dm, drum, step_index, checked,
                                 DRUM_NOTES[i].note)
        IN  /\ after.raised = "none"
            /\ (after.pattern[drum][step_index + 1] # 0) = checked
            /\ SameButCell(dm, after, drum, step_index)

\* a cell of the second group switched off while another is on and the clock
\* is past the first step
C9_Witness ==
    /\ last_op = "toggle"
    /\ dm.raised = "none"
    /\ dm.sent = <<>>
    /\ dm.is_playing
    /\ dm.step_index > 0
    /\ dm.group_count = 2
    /\ dm.pattern["ride"][STEPS_PER_GROUP + 1] = 1
    /\ dm.pattern["kick"][STEPS_PER_GROUP + 1] = 0

\* C10: a toggle with step_index >= total_steps (a closure that only a
\* direct call of make_toggle yields, no button being bound to such a
\* column) fails with the out-of-range error (IndexError), leaves every cell
\* and every sequence length as they were, and sends no preview.
C10_ToggleOutOfRange ==
    \A i \in ToggleRows, step_index \in UnstoredSteps(dm), checked \in BOOLEAN :
        LET after == make_toggle(dm, DRUM_NOTES[i].drum, step_index,
                                 checked, DRUM_NOTES[i].note)
        IN  /\ after.raised = "IndexError"
            /\ after.pattern = dm.pattern
            /\ after.sent = <<>>

\* a failed toggle on a pattern with a cell on
C10_Witness ==
    /\ last_op = "make_toggle"
    /\ dm.raised = "IndexError"
    /\ SomeCellActive(dm)

\* what the claim says of a live event: its kind, note, channel and velocity
PreviewPair(note) ==
    << [type |-> "note_on", channel |-> 9, note |-> note, velocity |-> 127],
       [type |-> "note_off", channel |-> 9, note |-> note, velocity |-> 127] >>

\* C11: on the object with a live sink, a toggle of a stored cell to active
\* sends exactly one note-on/note-off pair for that voice's note, a toggle to
\* inactive sends nothing, whatever the playback state, and the cursor does
\* not move.
C11_PreviewOnToggle ==
    \A i \in ToggleRows, step_index \in ToggleSteps(dm) :
        LET checked == isChecked(dm, DRUM_NOTES[i].drum, step_index)
            after == make_toggle(dm, DRUM_NOTES[i].drum, step_index,
                                 checked, DRUM_NOTES[i].note)
        IN  /\ [m \in 1..Len(after.sent) |-> Claimed(after.sent[m])]
                 = IF checked THEN PreviewPair(DRUM_NOTES[i].note) ELSE <<>>
            /\ after.step_index = dm.step_index

\* a preview sent while Paused in the middle of the pattern
C11_Witness ==
    /\ last_op = "toggle"
    /\ Len(dm.sent) = 2
    /\ dm.sent[1].note = 51
    /\ ~dm.is_playing
    /\ dm.step_index > 0

\* the export tick unit
TicksPerStep == TICKS_PER_BEAT \div 4

\* what the claim says of an exported event: kind, note, velocity, delta
Exported(msg) ==
    [type |-> msg.type, note |-> msg.note, velocity |-> msg.velocity,
     time |-> msg.time]

\* the reference events of one step: a pair per active row in table order,
\* the first note-on carrying the step's delta, or the placeholder
ReferenceStep(self, step) ==
    LET rows == ActiveRows(self, step) IN
    IF rows = {}
    THEN << [type |-> "note_off", note |-> 0, velocity |-> 0,
             time |-> TicksPerStep] >>
    ELSE [m \in 1..(2 * Cardinality(rows)) |->
            [type |-> IF m % 2 = 1 THEN "note_on" ELSE "note_off",
             note |-> DRUM_NOTES[NthRow(rows, (m + 1) \div 2)].note,
             velocity |-> 127,
             time |-> IF m = 1 THEN TicksPerStep ELSE 0]]

\* the reference events of steps 0..n-1, in increasing order
RECURSIVE ReferenceSteps(_, _)
ReferenceSteps(self, n) ==
    IF n = 0 THEN <<>>
    ELSE ReferenceSteps(self, n - 1) \o ReferenceStep(self, n - 1)

\* C12: the track of a successful export is one tempo meta-event followed,
\* for each step 0..total_steps-1 in increasing order, by a note-on and a
\* note-off per active voice in Voice Table order (the first note-on of the
\* step with delta ticks_per_step, every other event of the step with delta
\* 0) or, for a step without active voice, by one placeholder note-off (note
\* 0, velocity 0) with delta ticks_per_step; nothing follows the last step.
C12_ExportReference ==
    [][(last_op' = "export_midi" /\ dm'.dialog = "information") =>
          /\ Len(dm'.written) >= 1
          /\ dm'.written[1].type = "set_tempo"
          /\ [m \in 1..(Len(dm'.written) - 1) |-> Exported(dm'.written[m + 1])]
                 = ReferenceSteps(dm, TotalSteps(dm))]_vars

\* an export of two groups with a step where both clicked rows are on
C12_Witness ==
    /\ last_op = "export_midi"
    /\ dm.dialog = "information"
    /\ dm.group_count = 2
    /\ dm.pattern["kick"][STEPS_PER_GROUP + 1] = 1
    /\ dm.pattern["ride"][STEPS_PER_GROUP + 1] = 1
    /\ dm.pattern["kick"][1] = 0
    /\ dm.pattern["ride"][1] = 1

RECURSIVE SumTimes(_, _)
SumTimes(track, n) ==
    IF n = 0 THEN 0 ELSE SumTimes(track, n - 1) + track[n].time

\* C13: the delta-times of the events of one exported track add up to
\* total_steps * ticks_per_step, whatever cells are active.
C13_DeltaSum ==
    (last_op = "export_midi" /\ dm.dialog = "information") =>
        SumTimes(dm.written, Len(dm.written)) = TotalSteps(dm) * TicksPerStep

\* an export of two groups with one, two and no active voices at a step
C13_Witness ==
    /\ last_op = "export_midi"
    /\ dm.dialog = "information"
    /\ dm.group_count = 2
    /\ dm.pattern["kick"][1] = 1
    /\ dm.pattern["ride"][1] = 1
    /\ dm.pattern["kick"][STEPS_PER_GROUP + 1] = 1
    /\ dm.pattern["ride"][STEPS_PER_GROUP + 1] = 0

\* C15: an export with an empty filename ends in the empty-filename outcome
\* (the warning): nothing is written, no success is reported, the pattern,
\* the cursor and the playback state are as before, and an export with a
\* name that follows it succeeds.
C15_EmptyFilename ==
    /\ \A save_ok \in BOOLEAN :
          LET after == export_midi(dm, "", save_ok)
          IN  /\ after.dialog = "warning"
              /\ after.written = <<>>
              /\ after.raised = "none"
              /\ after.pattern = dm.pattern
              /\ after.step_index = dm.step_index
              /\ after.is_playing = dm.is_playing
              /\ after.timer_active = dm.timer_active
    /\ (last_op = "export_midi" /\ dm.dialog = "warning") =>
          LET retry == export_midi(dm, DEFAULT_FILENAME, TRUE)
          IN  /\ retry.dialog = "information"
              /\ retry.written # <<>>

\* the warning shown while the clock is ticking over a pattern with a cell on
C15_Witness ==
    /\ last_op = "export_midi"
    /\ dm.dialog = "warning"
    /\ dm.written = <<>>
    /\ dm.is_playing
    /\ dm.step_index > 0
    /\ SomeCellActive(dm)

\* C16: when the write of the file fails, the failure leaves export_midi as
\* an exception and the export does not end in the "Saved" dialog.
C16_WriteFailureSurfaced ==
    LET after == export_midi(dm, DEFAULT_FILENAME, FALSE)
    IN  /\ after.raised # "none"
        /\ after.dialog # "information"

\* a failed write of a pattern with a cell on
C16_Witness ==
    /\ last_op = "export_midi"
    /\ dm.raised = "OSError"
    /\ dm.dialog = "none"
    /\ SomeCellActive(dm)

\* C20: add_step_group only appends: every cell stored before the call keeps
\* its index and value, the 16 new cells of every voice are 0, and the cursor
\* and the playback state are unchanged, also while Playing.
C20_AddGroupAppends ==
    [][last_op' = "add_step_group" =>
          /\ \A d \in DrumNames :
                /\ Len(dm'.pattern[d]) = Len(dm.pattern[d]) + STEPS_PER_GROUP
                /\ \A k \in 1..Len(dm.pattern[d]) :
                      dm'.pattern[d][k] = dm.pattern[d][k]
                /\ \A k \in (Len(dm.pattern[d]) + 1)..Len(dm'.pattern[d]) :
                      dm'.pattern[d][k] = 0
          /\ dm'.step_index = dm.step_index
          /\ dm'.is_playing = dm.is_playing
          /\ dm'.timer_active = dm.timer_active]_vars

\* a group added while Playing in the middle of a pattern with a cell on
C20_Witness ==
    /\ last_op = "add_step_group"
    /\ dm.group_count = 2
    /\ dm.is_playing
    /\ dm.step_index > 0
    /\ SomeCellActive(dm)

\* total_steps never decreases and changes only through add_step_group
GrowsOnlyByAddGroup ==
    [][/\ TotalSteps(dm') >= TotalSteps(dm)
       /\ (TotalSteps(dm') # TotalSteps(dm) => last_op' = "add_step_group")]_vars

\* C19 as stated: the pattern is created empty (total_steps = 0, zero
\* groups), never shrinks, and changes length only through add_step_group.
C19_CreatedEmpty ==
    /\ TotalSteps(dm) = 0 /\ dm.group_count = 0
    /\ GrowsOnlyByAddGroup

\* C19 (amended): construction already adds the first group, so the pattern
\* starts with one group of STEPS_PER_GROUP steps in every row; from there
\* total_steps never decreases and changes only through add_step_group.
C19_OneGroupThenGrows ==
    /\ dm.group_count = 1
    /\ \A d \in DrumNames : dm.pattern[d] = Zeros(STEPS_PER_GROUP)
    /\ GrowsOnlyByAddGroup

\* a second group was appended to a pattern that already had active cells,
\* and the machine went on to another operation
C19_Witness ==
    /\ dm.group_count = 2
    /\ TotalSteps(dm) = 2 * STEPS_PER_GROUP
    /\ SomeCellActive(dm)
    /\ last_op = "stop_playback"
\* C17: when the BPM is changed while the clock is playing, the tick already
\* scheduled keeps its old interval, and every tick scheduled after it (the
\* timer as it stands once a tick has fired) runs at the interval derived
\* from the BPM now set, with no further start_playback call.
C17_NewBpmFromNextTick ==
    [][/\ (last_op' = "bpm_input.setValue" /\ dm.is_playing)
           => dm'.timer_interval = dm.timer_interval
       /\ (last_op' = "play_step" /\ dm'.is_playing)
           => dm'.timer_interval = interval_ms(dm'.bpm)]_vars
\* C14: an export changes neither the pattern nor the cursor nor the
\* playback state, and a successful export writes exactly the file that the
\* first successful export wrote since the pattern last changed, whatever
\* ticks, starts, pauses and stops came between the two (the BPM is not
\* edited in SpecExport).
C14_ExportIdempotent ==
    [][last_op' = "export_midi"
       => /\ dm'.pattern = dm.pattern
          /\ dm'.step_index = dm.step_index
          /\ dm'.is_playing = dm.is_playing
          /\ dm'.timer_active = dm.timer_active
          /\ (dm'.dialog = "information" /\ exported.saved)
                 => dm'.written = exported.track]_vars

\* a second export succeeded while playing, after ticks had moved the cursor
\* into the second group, on a pattern with an active cell
C14_Witness ==
    /\ last_op = "export_midi"
    /\ dm.dialog = "information"
    /\ exported.saved /\ exported.ticked
    /\ dm.is_playing
    /\ dm.step_index > STEPS_PER_GROUP
    /\ SomeCellActive(dm)
LastDrum == DRUM_NOTES[Len(DRUM_NOTES)].drum

\* C18: however ticks interleave with add_step_group and toggle, the
\* pattern a tick reads is whole: every row has group_count groups of
\* cells, so no tick sees some rows extended by a new group and others not.
C18_TickSeesWholeGroups ==
    [][(last_op' = "play_step" /\ adding' = adding)
       => \A d \in DrumNames :
              Len(dm.pattern[d]) = dm.group_count * STEPS_PER_GROUP]_vars

\* an append is half done (the first row extended, the last not) while the
\* timer is running, ticks have already fired and a cell is active
C18_Witness ==
    /\ adding > 1
    /\ Len(dm.pattern[FirstDrum]) > Len(dm.pattern[LastDrum])
    /\ dm.timer_active
    /\ dm.step_index > 0
    /\ SomeCellActive(dm)
====
